---- MODULE Spec2Model ----
(***************************************************************************)
(* EM Slack Party Parroter (src/parroter.py): one run of the command line  *)
(* program, from the construction of EmSlackPartyParroter to the end of    *)
(* main().  The remote collaborators (Slack's pages and API, the GitHub    *)
(* catalog) are the environment: every request's outcome is chosen         *)
(* nondeterministically among the outcomes the code distinguishes.         *)
(***************************************************************************)
EXTENDS Integers, Sequences, FiniteSets, TLC

\* ------------------------------------------------------------------ bounds
MaxParrots == 2
MaxGuests == 1
MaxTime == 2
MaxPrompts == 2
MaxRuns == 2

\* cookie_expire_default: {'hours': 1}
CookieExpireDefault == 1

VARIABLES
    args,             \* self.args: the parsed command line
    cookies_file,     \* the pickle file .slack_cookies: <<>> or <<(team, cookies)>>
    cookies_file0,    \* the file as the run found it (history)
    session_cookies,  \* self.session.cookies
    logins,           \* number of logins _get_cookies() made (history)
    api_token,        \* self.api_token
    team_emoji,       \* the team's custom emoji, on Slack
    parrots,          \* parrot(): parrots
    guests,           \* parrot(): guests
    current_emoji,    \* parrot(): current_emoji
    to_add,           \* parrot(): to_add
    idx,              \* add_parrots(): position of the loop over parrots
    added,            \* add_parrots(): added
    attempted,        \* slugs add_parrot() was called with, in call order (history)
    requests,         \* slugs of the emoji.add POSTs sent, in order (history)
    accepted,         \* slugs of the emoji.add POSTs the server answered ok to (history)
    messages,         \* chat.postMessage POSTs sent (history)
    stdout,           \* lines printed to sys.stdout
    stderr,           \* lines printed to sys.stderr
    prompts,          \* number of times yes_or_no() asked
    pc,               \* position of the run
    phases,           \* positions' phases the run went through (history)
    result,           \* how the process ended
    run,              \* number of this run of the program on the team
    earlier           \* <<>>, or what the interrupted runs before this one left

vars == <<args, cookies_file, cookies_file0, session_cookies, logins, api_token,
          team_emoji, parrots, guests,
          current_emoji, to_add, idx, added, attempted, requests, accepted,
          messages, stdout, stderr, prompts, pc, phases, result, run, earlier>>

\* ------------------------------------------------------------- sequences
RECURSIVE SeqsUpTo(_, _)
SeqsUpTo(S, n) ==
    IF n = 0 THEN {<<>>}
    ELSE LET shorter == SeqsUpTo(S, n - 1)
         IN  shorter \cup {Append(s, x) : s \in shorter, x \in S}

Range(s) == {s[i] : i \in 1..Len(s)}

IsPrefix(s, t) == Len(s) <= Len(t) /\ SubSeq(t, 1, Len(s)) = s

RECURSIVE IsSubsequence(_, _)
IsSubsequence(s, t) ==
    IF s = <<>> THEN TRUE
    ELSE IF t = <<>> THEN FALSE
    ELSE IF Head(s) = Head(t) THEN IsSubsequence(Tail(s), Tail(t))
    ELSE IsSubsequence(s, Tail(t))

\* --------------------------------------------------------------- strings
\* A string is a sequence of one-character strings.

\* re.split(pattern, string) for a pattern that matches one character of seps
RECURSIVE re_split(_, _)
re_split(seps, s) ==
    IF s = <<>> THEN << <<>> >>
    ELSE LET rest == re_split(seps, Tail(s))
         IN  IF Head(s) \in seps
             THEN << <<>> >> \o rest
             ELSE << <<Head(s)>> \o Head(rest) >> \o Tail(rest)

\* str.lower(), on the characters the model uses
lower_char(c) == CASE c = "Y" -> "y" [] c = "N" -> "n" [] c = "A" -> "a" [] OTHER -> c

lower(s) == [i \in 1..Len(s) |-> lower_char(s[i])]

\* str.strip()
RECURSIVE lstrip(_)
lstrip(s) == IF s # <<>> /\ Head(s) = " " THEN lstrip(Tail(s)) ELSE s

RECURSIVE rstrip(_)
rstrip(s) == IF s # <<>> /\ s[Len(s)] = " " THEN rstrip(SubSeq(s, 1, Len(s) - 1)) ELSE s

strip(s) == rstrip(lstrip(s))

\* ---------------------------------------------------------------- output
Line(kind, slug, n, detail) == [kind |-> kind, slug |-> slug, n |-> n, detail |-> detail]

Kinds(lines) == [i \in 1..Len(lines) |-> lines[i].kind]

SlugsOfKind(lines, kind) ==
    LET keep(l) == l.kind = kind
        sel == SelectSeq(lines, keep)
    IN  [i \in 1..Len(sel) |-> sel[i].slug]

\* ------------------------------------------------------------ the inputs
\* Image references of the catalog listings, as the characters of the file name
A_GIF == <<"a", ".", "g">>
B_GIF == <<"b", ".", "g">>
B_HD == <<"h", "/", "b", ".", "g">>
C_HD == <<"c">>

\* Entries of parrots.json: a name and a gif and/or an hd reference; one entry
\* has an hd reference without directory or extension, one has no reference
EntryPool ==
    { [name |-> "a", gif |-> A_GIF],
      [name |-> "b", hd |-> B_HD, gif |-> B_GIF],
      [name |-> "c", hd |-> C_HD],
      [name |-> "x"] }

\* Entries of guests.json: one whose slug a parrot has too, and one without image
GuestPool == { [name |-> "a", gif |-> A_GIF], [name |-> "x"] }

\* The listings parrots.json and guests.json can hold
ParrotLists == SeqsUpTo(EntryPool, MaxParrots)

GuestLists == SeqsUpTo(GuestPool, MaxGuests)

\* Names of custom emoji a team can have
EmojiNames == { <<"a">>, <<"A">>, <<"b">> }

Teams == {"alpha", "beta"}

\* What the user types at the (y/n) prompt
Replies == { <<"y">>, <<" ", "Y">>, <<"n">>, <<"x">>, <<" ">>, <<>> }

\* The clock of the run, datetime.now(), in hours
Now == MaxTime

\* A cookie: the team whose login issued it, the login that issued it, its expiry
Cookie(team, session, expires) == [team |-> team, session |-> session, expires |-> expires]

\* The cookie jars a cache file can hold: empty, or one cookie of an earlier login
CachedJars(team) == {{}} \cup {{Cookie(team, "cached", e)} : e \in 0..(MaxTime + 1)}

\* The cache files an earlier run can have left: none, or the pickle of
\* (team, cookies) that _store_cookies wrote for its team at some earlier hour
CacheFiles ==
    {<<>>} \cup
    UNION { { <<[team |-> t, cookies |-> c, mtime |-> m]>> :
                c \in CachedJars(t), m \in 0..MaxTime } : t \in Teams }

\* ------------------------------------------------------- _cookies_expired
AnyCookieExpired(cookies) ==
    \E cookie \in cookies : cookie.expires # 0 /\ Now > cookie.expires

_cookies_expired(cookies, mod_time) ==
    IF Now - mod_time > CookieExpireDefault THEN TRUE
    ELSE AnyCookieExpired(cookies)

\* NeedsRefresh without the comparison of the cached team with the run's team
NeedsRefresh_AnyTeam(refresh, file, team) ==
    IF refresh THEN TRUE
    ELSE IF file = <<>> THEN TRUE
    ELSE LET cached == file[1]
             expired == _cookies_expired(cached.cookies, cached.mtime)
         IN  cached.cookies = {} \/ expired

\* _load_cookie_jar, lines 301-312: whether new cookies are needed
NeedsRefresh(refresh, file, team) ==
    IF refresh THEN TRUE
    ELSE IF file = <<>> THEN TRUE
    ELSE LET cached == file[1]
             expired == _cookies_expired(cached.cookies, cached.mtime)
         IN  cached.cookies = {} \/ expired \/ cached.team # team

\* ---------------------------------------------------------- get_emoji_list
Has(emoji, key) == key \in DOMAIN emoji

Set(emoji, key, value) == (key :> value) @@ emoji

\* lines 596-604: the image to use and the slug; error is the exception raised
FormatEmoji(emoji) ==
    IF Has(emoji, "hd")
    THEN LET e == Set(emoji, "use_hd", TRUE)
             parts == re_split({"/", "."}, emoji.hd)
         IN  IF Len(parts) >= 2
             THEN [emoji |-> Set(e, "slug", parts[2]), error |-> "none"]
             ELSE [emoji |-> e, error |-> "IndexError"]
    ELSE IF Has(emoji, "gif")
    THEN LET e == Set(emoji, "use_hd", FALSE)
             parts == re_split({"."}, emoji.gif)
         IN  [emoji |-> Set(e, "slug", parts[1]), error |-> "none"]
    ELSE [emoji |-> emoji, error |-> "none"]

\* NotInCurrent with names compared without regard to case
NotInCurrent_AnyCase(slug, current) == lower(slug) \notin {lower(name) : name \in current}

\* line 615
NotInCurrent(slug, current) == slug \notin current

\* The loop of lines 592-616 from entry i on. st holds emoji_list, the emojis
\* (which the loop updates in place), the slugs printed and the exception raised.
RECURSIVE EmojiLoop(_, _, _, _, _)
EmojiLoop(st, i, current, is_guest, list_available) ==
    IF i > Len(st.emojis) \/ st.error # "none" THEN st
    ELSE LET f == FormatEmoji(Set(st.emojis[i], "is_guest", is_guest))
             e == f.emoji
             st1 == [st EXCEPT !.emojis[i] = e]
         IN  IF f.error # "none" THEN [st1 EXCEPT !.error = f.error]
             ELSE IF ~Has(e, "slug") THEN [st1 EXCEPT !.error = "KeyError"]
             ELSE IF list_available
             THEN EmojiLoop([st1 EXCEPT !.printed = Append(@, e.slug)],
                            i + 1, current, is_guest, list_available)
             ELSE IF NotInCurrent(e.slug, current)
             THEN EmojiLoop([st1 EXCEPT !.emoji_list = Append(@, e)],
                            i + 1, current, is_guest, list_available)
             ELSE EmojiLoop(st1, i + 1, current, is_guest, list_available)

get_emoji_list(current, emojis, is_guest, list_available) ==
    EmojiLoop([emoji_list |-> <<>>, emojis |-> emojis, printed |-> <<>>, error |-> "none"],
              1, current, is_guest, list_available)

\* Concat with the guests first
Concat_GuestsFirst(parrots_to_add, guests_to_add) == guests_to_add \o parrots_to_add

\* line 639
Concat(parrots_to_add, guests_to_add) == parrots_to_add \o guests_to_add

\* get_parrots_to_add (guests is never None: parrot() passes a list)
get_parrots_to_add(current, parrots_, guests_, list_available) ==
    LET p == get_emoji_list(current, parrots_, FALSE, list_available)
        g == IF p.error = "none"
             THEN get_emoji_list(current, guests_, TRUE, list_available)
             ELSE [emoji_list |-> <<>>, emojis |-> guests_, printed |-> <<>>,
                   error |-> "none"]
    IN  [to_add |-> Concat(p.emoji_list, g.emoji_list),
         parrots |-> p.emojis,
         guests |-> g.emojis,
         printed |-> p.printed \o g.printed,
         error |-> IF p.error # "none" THEN p.error ELSE g.error]

Slugs(emojis) == [i \in 1..Len(emojis) |-> emojis[i].slug]

\* ----------------------------------------------------------------- the run
\* The run's phase at each position
PhaseOf(p) ==
    CASE p \in {"load_cookie_jar", "get_api_token"} -> "Init"
      [] p \in {"get_parrot_list", "get_guests_list"} -> "Authenticated"
      [] p \in {"get_current_emoji_list", "list_existing"} -> "CatalogLoaded"
      [] p \in {"diffed", "approve"} -> "Diffed"
      [] p \in {"add_parrots", "report"} -> "Uploading"
      [] p \in {"reported"} -> "Reported"
      [] OTHER -> "Done"

Last(s) == s[Len(s)]

Goto(p) ==
    /\ pc' = p
    /\ phases' = IF PhaseOf(p) = Last(phases) THEN phases ELSE Append(phases, PhaseOf(p))

\* The process ends: "return" (main returns), "sys.exit()", "sys.exit(1)", or the
\* name of the exception nothing catches
Exit(how) ==
    /\ Goto("exited")
    /\ result' = how

ExitCode == IF result \in {"return", "sys.exit()"} THEN 0 ELSE 1

Running == pc # "exited"

Flags ==
    [team : Teams, refresh : BOOLEAN, include_guests : BOOLEAN,
     list_existing : BOOLEAN, list_available : BOOLEAN, list_new : BOOLEAN,
     quiet : BOOLEAN, channel : {"None", "#parrots"}]

InitWith(flags, files, emoji_sets) ==
    /\ args \in flags
    /\ cookies_file \in files
    /\ cookies_file0 = cookies_file
    /\ session_cookies = {}
    /\ logins = 0
    /\ api_token = "None"
    /\ team_emoji \in emoji_sets
    /\ parrots = <<>>
    /\ guests = <<>>
    /\ current_emoji = {}
    /\ to_add = <<>>
    /\ idx = 1
    /\ added = <<>>
    /\ attempted = <<>>
    /\ requests = <<>>
    /\ accepted = <<>>
    /\ messages = <<>>
    /\ stdout = <<>>
    /\ stderr = <<>>
    /\ prompts = 0
    /\ pc = "load_cookie_jar"
    /\ phases = <<"Init">>
    /\ result = "running"
    /\ run = 1
    /\ earlier = <<>>

\* ------------------------------------------------------------- __init__
\* _get_cookies: the login. "302" is a login Slack accepts (with or without the
\* two-factor step), the others are the ways it fails.
LoginOutcomes == {"302", "HTTPError", "no_signin_form", "not_302"}

\* validated.cookies of a login the team accepts
NewCookies(team) == {Cookie(team, "login", 0)}

\* LoadCookieJar without _store_cookies
LoadCookieJar_NoStore ==
    /\ pc = "load_cookie_jar"
    /\ IF NeedsRefresh(args.refresh, cookies_file, args.team)
       THEN \E outcome \in LoginOutcomes :
            /\ logins' = logins + 1
            /\ CASE outcome = "302" ->
                     /\ cookies_file' = cookies_file
                     /\ session_cookies' = session_cookies \cup NewCookies(args.team)
                     /\ Goto("get_api_token")
                     /\ UNCHANGED <<stderr, result>>
                [] outcome = "HTTPError" ->
                     /\ Exit("HTTPError")
                     /\ UNCHANGED <<cookies_file, session_cookies, stderr>>
                [] OTHER ->
                     /\ stderr' = Append(stderr, Line("login_error", <<>>, 0, outcome))
                     /\ Exit("sys.exit(1)")
                     /\ UNCHANGED <<cookies_file, session_cookies>>
       ELSE /\ session_cookies' = session_cookies \cup cookies_file[1].cookies
            /\ Goto("get_api_token")
            /\ UNCHANGED <<cookies_file, logins, stderr, result>>
    /\ UNCHANGED <<run, earlier, args, cookies_file0, api_token, team_emoji, parrots, guests,
                   current_emoji, to_add, idx, added, attempted, requests, accepted, messages, stdout, prompts>>

\* _load_cookie_jar(refresh=self.args.refresh)
LoadCookieJar ==
    /\ pc = "load_cookie_jar"
    /\ IF NeedsRefresh(args.refresh, cookies_file, args.team)
       THEN \E outcome \in LoginOutcomes :
            /\ logins' = logins + 1
            /\ CASE outcome = "302" ->
                     /\ cookies_file' = <<[team |-> args.team,
                                           cookies |-> NewCookies(args.team),
                                           mtime |-> Now]>>
                     /\ session_cookies' = session_cookies \cup NewCookies(args.team)
                     /\ Goto("get_api_token")
                     /\ UNCHANGED <<stderr, result>>
                [] outcome = "HTTPError" ->
                     /\ Exit("HTTPError")
                     /\ UNCHANGED <<cookies_file, session_cookies, stderr>>
                [] OTHER ->
                     /\ stderr' = Append(stderr, Line("login_error", <<>>, 0, outcome))
                     /\ Exit("sys.exit(1)")
                     /\ UNCHANGED <<cookies_file, session_cookies>>
       ELSE /\ session_cookies' = session_cookies \cup cookies_file[1].cookies
            /\ Goto("get_api_token")
            /\ UNCHANGED <<cookies_file, logins, stderr, result>>
    /\ UNCHANGED <<run, earlier, args, cookies_file0, api_token, team_emoji, parrots, guests,
                   current_emoji, to_add, idx, added, attempted, requests, accepted, messages, stdout, prompts>>

\* _get_api_token(), then main()'s print('')
GetApiToken ==
    /\ pc = "get_api_token"
    /\ \E outcome \in {"token", "HTTPError", "no_token"} :
         CASE outcome = "token" ->
                /\ api_token' = "xoxs"
                /\ stdout' = Append(stdout, Line("blank", <<>>, 0, ""))
                /\ Goto("get_parrot_list")
                /\ UNCHANGED <<stderr, result>>
           [] outcome = "HTTPError" ->
                /\ Exit("HTTPError")
                /\ UNCHANGED <<api_token, stdout, stderr>>
           [] OTHER ->
                /\ stderr' = Append(stderr, Line("login_error", <<>>, 0, outcome))
                /\ Exit("sys.exit(1)")
                /\ UNCHANGED <<api_token, stdout>>
    /\ UNCHANGED <<run, earlier, args, cookies_file, cookies_file0, session_cookies, logins,
                   team_emoji, parrots, guests, current_emoji, to_add,
                   idx, added, attempted, requests, accepted, messages, prompts>>

\* --------------------------------------------------------------- parrot()
\* get_parrot_list()
GetParrotList ==
    /\ pc = "get_parrot_list"
    /\ \E outcome \in {"json", "HTTPError"}, listing \in ParrotLists :
         IF outcome = "json"
         THEN /\ parrots' = listing
              /\ Goto(IF args.include_guests THEN "get_guests_list"
                      ELSE "get_current_emoji_list")
              /\ UNCHANGED result
         ELSE /\ Exit("HTTPError")
              /\ UNCHANGED parrots
    /\ UNCHANGED <<run, earlier, args, cookies_file, cookies_file0, session_cookies, logins, api_token,
                   team_emoji, guests, current_emoji,
                   to_add, idx, added, attempted, requests, accepted, messages,
                   stdout, stderr, prompts>>

\* get_guests_list()
GetGuestsList ==
    /\ pc = "get_guests_list"
    /\ \E outcome \in {"json", "HTTPError"}, listing \in GuestLists :
         IF outcome = "json"
         THEN /\ guests' = listing
              /\ Goto("get_current_emoji_list")
              /\ UNCHANGED result
         ELSE /\ Exit("HTTPError")
              /\ UNCHANGED guests
    /\ UNCHANGED <<run, earlier, args, cookies_file, cookies_file0, session_cookies, logins, api_token,
                   team_emoji, parrots, current_emoji,
                   to_add, idx, added, attempted, requests, accepted, messages,
                   stdout, stderr, prompts>>

\* GetCurrentEmojiList that takes the team to have no emoji
GetCurrentEmojiList_NoFetch ==
    /\ pc = "get_current_emoji_list"
    /\ current_emoji' = {}
    /\ Goto("list_existing")
    /\ UNCHANGED <<run, earlier, args, cookies_file, cookies_file0, session_cookies, logins,
                   api_token, team_emoji, parrots, guests,
                   to_add, idx, added, attempted, requests, accepted, messages,
                   stdout, stderr, prompts, result>>

\* get_current_emoji_list()
GetCurrentEmojiList ==
    /\ pc = "get_current_emoji_list"
    /\ \E outcome \in {"emoji", "HTTPError", "not_ok"} :
         CASE outcome = "emoji" ->
                /\ current_emoji' = team_emoji
                /\ Goto("list_existing")
                /\ UNCHANGED <<stderr, result>>
           [] outcome = "HTTPError" ->
                /\ Exit("HTTPError")
                /\ UNCHANGED <<current_emoji, stderr>>
           [] OTHER ->
                /\ stderr' = Append(stderr, Line("emoji_error", <<>>, 0, outcome))
                /\ Exit("sys.exit(1)")
                /\ UNCHANGED current_emoji
    /\ UNCHANGED <<run, earlier, args, cookies_file, cookies_file0, session_cookies, logins, api_token,
                   team_emoji, parrots, guests,
                   to_add, idx, added, attempted, requests, accepted, messages,
                   stdout, prompts>>

\* The lines printed for a sequence of slugs
Lines(kind, slugs) == [i \in 1..Len(slugs) |-> Line(kind, slugs[i], 0, "")]

\* The keys of the emoji.list answer, in the order the loop of line 773 visits them
RECURSIVE Keys(_)
Keys(S) == IF S = {} THEN <<>> ELSE LET x == CHOOSE y \in S : TRUE IN <<x>> \o Keys(S \ {x})

\* lines 769-778: list the team's emoji and exit
ListExisting ==
    /\ pc = "list_existing"
    /\ args.list_existing
    /\ stdout' = stdout \o <<Line("Existing Parrots:", <<>>, 0, "")>>
                        \o Lines("existing", Keys(current_emoji))
    /\ Exit("sys.exit()")
    /\ UNCHANGED <<run, earlier, args, cookies_file, cookies_file0, session_cookies, logins, api_token,
                   team_emoji, parrots, guests,
                   current_emoji, to_add, idx, added, attempted, requests, accepted,
                   messages, stderr, prompts>>

\* lines 780-787: the heading, then get_parrots_to_add()
GetParrotsToAdd ==
    /\ pc = "list_existing"
    /\ ~args.list_existing
    /\ LET heading == IF args.list_available THEN "Available Parrots:"
                      ELSE "Starting Parroting..."
           diff == get_parrots_to_add(current_emoji, parrots, guests, args.list_available)
       IN  /\ stdout' = stdout \o <<Line(heading, <<>>, 0, "")>>
                               \o Lines("available", diff.printed)
           /\ parrots' = diff.parrots
           /\ guests' = diff.guests
           /\ IF diff.error = "none"
              THEN /\ to_add' = diff.to_add
                   /\ Goto("diffed")
                   /\ UNCHANGED result
              ELSE /\ Exit(diff.error)
                   /\ UNCHANGED to_add
    /\ UNCHANGED <<run, earlier, args, cookies_file, cookies_file0, session_cookies, logins, api_token,
                   team_emoji, current_emoji, idx,
                   added, attempted, requests, accepted, messages, stderr, prompts>>

\* ListAvailable without the exit
ListAvailable_NoExit ==
    /\ pc = "diffed"
    /\ args.list_available
    /\ Goto("approve")
    /\ UNCHANGED <<run, earlier, args, cookies_file, cookies_file0, session_cookies, logins, api_token,
                   team_emoji, parrots, guests, current_emoji, to_add, idx, added,
                   attempted, requests, accepted, messages, stdout, stderr, prompts,
                   result>>

\* lines 790-791
ListAvailable ==
    /\ pc = "diffed"
    /\ args.list_available
    /\ Exit("sys.exit()")
    /\ UNCHANGED <<run, earlier, args, cookies_file, cookies_file0, session_cookies, logins, api_token,
                   team_emoji, parrots, guests,
                   current_emoji, to_add, idx, added, attempted, requests, accepted,
                   messages, stdout, stderr, prompts>>

\* lines 794-796
NoNewParrots ==
    /\ pc = "diffed"
    /\ ~args.list_available
    /\ to_add = <<>>
    /\ stdout' = Append(stdout, Line("No new parrots to add!", <<>>, 0, ""))
    /\ Exit("sys.exit()")
    /\ UNCHANGED <<run, earlier, args, cookies_file, cookies_file0, session_cookies, logins, api_token,
                   team_emoji, parrots, guests,
                   current_emoji, to_add, idx, added, attempted, requests, accepted,
                   messages, stderr, prompts>>

\* ListNew without the exit of --list_new
ListNew_NoExit ==
    /\ pc = "diffed"
    /\ ~args.list_available
    /\ to_add # <<>>
    /\ stdout' = stdout \o <<Line("Found", <<>>, Len(to_add), "")>>
                        \o Lines("new", Slugs(to_add))
    /\ Goto("approve")
    /\ UNCHANGED <<run, earlier, args, cookies_file, cookies_file0, session_cookies, logins, api_token,
                   team_emoji, parrots, guests, current_emoji, to_add, idx, added,
                   attempted, requests, accepted, messages, stderr, prompts, result>>

\* lines 799-816: the count and the slugs of the new parrots; exit when listing
ListNew ==
    /\ pc = "diffed"
    /\ ~args.list_available
    /\ to_add # <<>>
    /\ stdout' = stdout \o <<Line("Found", <<>>, Len(to_add), "")>>
                        \o Lines("new", Slugs(to_add))
    /\ IF args.list_new
       THEN Exit("sys.exit()")
       ELSE Goto("approve") /\ UNCHANGED result
    /\ UNCHANGED <<run, earlier, args, cookies_file, cookies_file0, session_cookies, logins, api_token,
                   team_emoji, parrots, guests,
                   current_emoji, to_add, idx, added, attempted, requests, accepted,
                   messages, stderr, prompts>>

\* yes_or_no(), on one reply: True, False, asked again, or reply[0] raises
yes_or_no(reply) ==
    LET r == strip(lower(reply))
    IN  IF r = <<>> THEN "IndexError"
        ELSE IF r[1] = "y" THEN "True"
        ELSE IF r[1] = "n" THEN "False"
        ELSE "again"

\* lines 819-820: approved without a prompt
ApproveQuiet ==
    /\ pc = "approve"
    /\ args.quiet
    /\ Goto("add_parrots")
    /\ UNCHANGED <<run, earlier, args, cookies_file, cookies_file0, session_cookies, logins, api_token,
                   team_emoji, parrots, guests,
                   current_emoji, to_add, idx, added, attempted, requests, accepted,
                   messages, stdout, stderr, prompts, result>>

\* lines 822-826: one prompt of yes_or_no('Add them to your Slack team?')
YesOrNo ==
    /\ pc = "approve"
    /\ ~args.quiet
    /\ \E reply \in Replies :
         LET answer == yes_or_no(reply)
         IN  /\ answer = "again" => prompts + 1 < MaxPrompts
             /\ prompts' = prompts + 1
             /\ CASE answer = "True" -> Goto("add_parrots") /\ UNCHANGED result
                  [] answer = "False" -> Exit("sys.exit()")
                  [] answer = "again" -> Goto("approve") /\ UNCHANGED result
                  [] OTHER -> Exit("IndexError")
    /\ UNCHANGED <<run, earlier, args, cookies_file, cookies_file0, session_cookies, logins, api_token,
                   team_emoji, parrots, guests,
                   current_emoji, to_add, idx, added, attempted, requests, accepted,
                   messages, stdout, stderr>>

\* ----------------------------------------------------------- add_parrots()
\* What add_parrot() meets: the image download or the emoji page answers with an
\* HTTP error, or emoji.add answers with an HTTP error, ok, ok false with an
\* error, or ok false without one
UploadOutcomes ==
    {"image_HTTPError", "page_HTTPError", "HTTPError", "ok", "error", "not_ok"}

\* add_parrot(), lines 705-712: the error returned for the answer of emoji.add
add_parrot_error(ok, has_error, error) ==
    IF ~ok /\ has_error THEN error ELSE "None"

\* One turn of the loop of add_parrots(): add_parrot(parrot) and its report
AddParrot ==
    /\ pc = "add_parrots"
    /\ idx <= Len(to_add)
    /\ LET parrot == to_add[idx]
       IN  \E outcome \in UploadOutcomes :
             /\ outcome = "ok" => parrot.slug \notin team_emoji
             /\ attempted' = Append(attempted, parrot.slug)
             /\ IF outcome \in {"image_HTTPError", "page_HTTPError"}
                THEN /\ Exit("HTTPError")
                     /\ UNCHANGED <<requests, accepted, team_emoji, added, idx,
                                    stdout, stderr>>
                ELSE /\ requests' = Append(requests, parrot.slug)
                     /\ IF outcome = "HTTPError"
                        THEN /\ Exit("HTTPError")
                             /\ UNCHANGED <<accepted, team_emoji, added, idx,
                                            stdout, stderr>>
                        ELSE LET detail == IF parrot.slug \in team_emoji
                                           THEN "error_name_taken"
                                           ELSE "error_bad_image"
                                 error == add_parrot_error(outcome = "ok",
                                                           outcome = "error", detail)
                             IN  /\ accepted' = IF outcome = "ok"
                                                THEN Append(accepted, parrot.slug)
                                                ELSE accepted
                                 /\ team_emoji' = IF outcome = "ok"
                                                  THEN team_emoji \cup {parrot.slug}
                                                  ELSE team_emoji
                                 /\ IF error # "None"
                                    THEN /\ stderr' = Append(stderr,
                                              Line("Error adding", parrot.slug, 0, error))
                                         /\ UNCHANGED <<stdout, added>>
                                    ELSE /\ stdout' = Append(stdout,
                                              Line("Added", parrot.slug, 0, ""))
                                         /\ added' = Append(added, parrot)
                                         /\ UNCHANGED stderr
                                 /\ idx' = idx + 1
                                 /\ UNCHANGED <<pc, phases, result>>
    /\ UNCHANGED <<run, earlier, args, cookies_file, cookies_file0, session_cookies, logins, api_token,
                   parrots, guests, current_emoji,
                   to_add, messages, prompts>>

\* AddParrotsReturn with the report made whatever was added
AddParrotsReturn_AlwaysReport ==
    /\ pc = "add_parrots"
    /\ idx > Len(to_add)
    /\ Goto("report")
    /\ UNCHANGED <<run, earlier, args, cookies_file, cookies_file0, session_cookies, logins, api_token,
                   team_emoji, parrots, guests, current_emoji, to_add, idx, added,
                   attempted, requests, accepted, messages, stdout, stderr, prompts,
                   result>>

\* add_parrots() returns added; main(), lines 890-891: report it if it is not empty
AddParrotsReturn ==
    /\ pc = "add_parrots"
    /\ idx > Len(to_add)
    /\ IF added # <<>>
       THEN Goto("report") /\ UNCHANGED result
       ELSE Exit("return")
    /\ UNCHANGED <<run, earlier, args, cookies_file, cookies_file0, session_cookies, logins, api_token,
                   team_emoji, parrots, guests,
                   current_emoji, to_add, idx, added, attempted, requests, accepted,
                   messages, stdout, stderr, prompts>>

\* ------------------------------------------------------------------ report()
Report ==
    /\ pc = "report"
    /\ stdout' = Append(stdout, Line("Successfully added", <<>>, Len(added), ""))
    /\ IF args.channel = "None"
       THEN /\ Goto("reported")
            /\ UNCHANGED <<messages, stderr, result>>
       ELSE /\ messages' = Append(messages, [channel |-> args.channel,
                                             count |-> Len(added),
                                             slugs |-> Slugs(added)])
            /\ \E outcome \in {"ok", "HTTPError", "not_ok"} :
                 CASE outcome = "ok" ->
                        /\ Goto("reported")
                        /\ UNCHANGED <<stderr, result>>
                   [] outcome = "HTTPError" ->
                        /\ Exit("HTTPError")
                        /\ UNCHANGED stderr
                   [] OTHER ->
                        /\ stderr' = Append(stderr,
                               Line("Unable to send Slack message", <<>>, 0, outcome))
                        /\ Goto("reported")
                        /\ UNCHANGED result
    /\ UNCHANGED <<run, earlier, args, cookies_file, cookies_file0, session_cookies, logins, api_token,
                   team_emoji, parrots, guests,
                   current_emoji, to_add, idx, added, attempted, requests, accepted,
                   prompts>>

\* main() returns
MainReturn ==
    /\ pc = "reported"
    /\ Exit("return")
    /\ UNCHANGED <<run, earlier, args, cookies_file, cookies_file0, session_cookies, logins, api_token,
                   team_emoji, parrots, guests,
                   current_emoji, to_add, idx, added, attempted, requests, accepted,
                   messages, stdout, stderr, prompts>>

Next ==
    \/ LoadCookieJar
    \/ GetApiToken
    \/ GetParrotList
    \/ GetGuestsList
    \/ GetCurrentEmojiList
    \/ ListExisting
    \/ GetParrotsToAdd
    \/ ListAvailable
    \/ NoNewParrots
    \/ ListNew
    \/ ApproveQuiet
    \/ YesOrNo
    \/ AddParrot
    \/ AddParrotsReturn
    \/ Report
    \/ MainReturn

\* ------------------------------------------------------- specifications
\* A cache file this run can use as it is, of team alpha
FreshFile == <<[team |-> "alpha", cookies |-> {Cookie("alpha", "cached", 0)}, mtime |-> Now]>>

\* Every command line of team alpha, without or with a usable cache file, on every
\* set of team emoji
Init ==
    InitWith({f \in Flags : f.team = "alpha"}, {<<>>, FreshFile}, SUBSET EmojiNames)

Spec == Init /\ [][Next]_vars

OptionCount(f) ==
    Cardinality({k \in {"include_guests", "list_existing", "list_available",
                        "list_new", "quiet"} : f[k]})
    + (IF f.channel # "None" THEN 1 ELSE 0)

\* Every team, with and without --refresh, on every cache file; at most one of
\* the other flags is set, and the team has no emoji yet
InitAuth ==
    InitWith({f \in Flags : OptionCount(f) <= 1}, CacheFiles, {{}})

SpecAuth == InitAuth /\ [][Next]_vars

\* ------------------------------------------------------- interrupted runs
\* A listing entry as parrots.yaml / guests.yaml give it, without the keys
\* get_emoji_list adds
Raw(e) == [k \in DOMAIN e \ {"is_guest", "use_hd", "slug"} |-> e[k]]

RawList(emojis) == [i \in 1..Len(emojis) |-> Raw(emojis[i])]

\* The user interrupts the run in the loop of add_parrots(): nothing catches the
\* KeyboardInterrupt.  When it comes during add_parrot(), the emoji.add request
\* of the entry may have reached Slack (landed) without the run recording it.
Interrupt ==
    /\ pc = "add_parrots"
    /\ \E landed \in BOOLEAN :
         /\ landed => (idx <= Len(to_add) /\ to_add[idx].slug \notin team_emoji)
         /\ IF landed
            THEN /\ attempted' = Append(attempted, to_add[idx].slug)
                 /\ requests' = Append(requests, to_add[idx].slug)
                 /\ accepted' = Append(accepted, to_add[idx].slug)
                 /\ team_emoji' = team_emoji \cup {to_add[idx].slug}
            ELSE UNCHANGED <<attempted, requests, accepted, team_emoji>>
    /\ Exit("KeyboardInterrupt")
    /\ UNCHANGED <<run, earlier, args, cookies_file, cookies_file0, session_cookies, logins,
                   api_token, parrots, guests, current_emoji, to_add, idx, added,
                   messages, stdout, stderr, prompts>>

\* The program is started again with the same command line after an
\* interrupted run: a new process, which finds the cache file and the team's
\* emoji as the runs before it left them.
Retry ==
    /\ pc = "exited"
    /\ result = "KeyboardInterrupt"
    /\ run < MaxRuns
    /\ run' = run + 1
    /\ earlier' = <<[parrots |-> RawList(parrots),
                     guests |-> RawList(guests),
                     installed |-> team_emoji,
                     accepted |-> (IF earlier = <<>> THEN <<>> ELSE earlier[1].accepted)
                                  \o accepted]>>
    /\ cookies_file0' = cookies_file
    /\ session_cookies' = {}
    /\ logins' = 0
    /\ api_token' = "None"
    /\ parrots' = <<>>
    /\ guests' = <<>>
    /\ current_emoji' = {}
    /\ to_add' = <<>>
    /\ idx' = 1
    /\ added' = <<>>
    /\ attempted' = <<>>
    /\ requests' = <<>>
    /\ accepted' = <<>>
    /\ messages' = <<>>
    /\ stdout' = <<>>
    /\ stderr' = <<>>
    /\ prompts' = 0
    /\ pc' = "load_cookie_jar"
    /\ phases' = <<"Init">>
    /\ result' = "running"
    /\ UNCHANGED <<args, cookies_file, team_emoji>>

NextRetry ==
    \/ Next
    \/ Interrupt
    \/ Retry

\* Runs of team alpha with a usable cache file and at most one option set, that
\* the user may interrupt in the upload loop and start again
InitRetry ==
    InitWith({f \in Flags : f.team = "alpha" /\ ~f.refresh /\ OptionCount(f) <= 1},
             {FreshFile}, SUBSET EmojiNames)

SpecRetry == InitRetry /\ [][NextRetry]_vars

\* ------------------------------------------------------------------ claims
Entered(phase) == \E i \in 1..Len(phases) : phases[i] = phase

Exited == pc = "exited"

\* The cache file of an earlier run that would be used as it is by a run of its team
Usable(file) == file # <<>> /\ ~NeedsRefresh(FALSE, file, file[1].team)

\* C1: a run without --refresh that finds the cache file of another team logs in
\* anew, and none of the file's cookies is put into the run's session.
C1_NoReuseAcrossTeams ==
    (/\ pc # "load_cookie_jar"
     /\ ~args.refresh
     /\ cookies_file0 # <<>>
     /\ cookies_file0[1].team # args.team)
    => /\ logins = 1
       /\ session_cookies \cap cookies_file0[1].cookies = {}
       /\ \A cookie \in session_cookies : cookie.team = args.team

\* A run of one team found a usable file of the other team, logged in and went on
C1_Witness ==
    /\ pc = "get_api_token"
    /\ ~args.refresh
    /\ Usable(cookies_file0)
    /\ cookies_file0[1].team # args.team
    /\ logins = 1
    /\ session_cookies = NewCookies(args.team)

\* The upload loop has been entered, and the number of entries it went through
LoopEntered == Entered("Uploading")

LoopDone == LoopEntered /\ idx > Len(to_add)

\* C2: whatever happens to one entry (its image download fails, its upload is
\* rejected, its name is taken), add_parrots goes on: once the run has ended, an
\* upload was attempted for every entry of the missing list, in list order.
C2_BatchNeverAborted ==
    (Exited /\ LoopEntered /\ attempted # <<>>) => attempted = Slugs(to_add)

\* The slugs of the lines "+ Error adding" on stderr
ErrorsLogged == SlugsOfKind(stderr, "Error adding")

\* C3: when some uploads of a batch are accepted and the server reports others as
\* failed, the run ends with exit code 0, the added list holds exactly the
\* entries the server accepted, and every other entry is named on stderr.
C3_PartialFailure ==
    (/\ Exited
     /\ LoopDone
     /\ accepted # <<>>
     /\ Len(accepted) < Len(requests))
    => /\ ExitCode = 0
       /\ Slugs(added) = accepted
       /\ Len(ErrorsLogged) = Len(requests) - Len(accepted)
       /\ IsSubsequence(ErrorsLogged, requests)

\* The catalog of the run, in fetch order: the standard parrots, then the guests
Catalog == parrots \o guests

\* get_parrots_to_add() has returned
DiffDone == Entered("Diffed")

\* The entries of a catalog whose slug is not installed (exact string comparison)
Missing(catalog, installed) ==
    LET new(e) == \A name \in installed : name # e.slug
    IN  SelectSeq(catalog, new)

\* C4 as stated: whatever the flags, get_parrots_to_add returns exactly the catalog
\* entries whose slug is not installed.
C4_DiffInEveryMode ==
    DiffDone => to_add = Missing(Catalog, current_emoji)

\* C4, amended: unless --list_available is set, get_parrots_to_add returns exactly
\* the catalog entries whose slug is not in the installed set, compared as exact
\* strings: all of the catalog when nothing is installed, nothing when the
\* catalog is empty.
C4_Diff ==
    (DiffDone /\ ~args.list_available)
    => /\ to_add = Missing(Catalog, current_emoji)
       /\ current_emoji = {} => to_add = Catalog
       /\ Catalog = <<>> => to_add = <<>>

\* An entry is kept although the team has its slug in another case, and an
\* installed entry is left out
C4_Witness ==
    /\ DiffDone
    /\ ~args.list_available
    /\ <<"A">> \in current_emoji
    /\ <<"a">> \notin current_emoji
    /\ <<"b">> \in current_emoji
    /\ Slugs(Catalog) = << <<"a">>, <<"b">> >>
    /\ Slugs(to_add) = << <<"a">> >>

\* The entries of one set in a list of entries
OfSet(emojis, is_guest) ==
    LET in_set(e) == e.is_guest = is_guest
    IN  SelectSeq(emojis, in_set)

\* C5: the missing list is a subsequence of the catalog in fetch order, every
\* standard entry before every guest entry, the entries of one set in the order
\* of their listing; computing the diff again on the same catalog and installed
\* set gives the same list.
C5_OrderPreservingIdempotent ==
    DiffDone
    => /\ IsSubsequence(to_add, Catalog)
       /\ \A i, j \in 1..Len(to_add) :
            (to_add[i].is_guest /\ ~to_add[j].is_guest) => j < i
       /\ IsSubsequence(OfSet(to_add, FALSE), parrots)
       /\ IsSubsequence(OfSet(to_add, TRUE), guests)
       /\ get_parrots_to_add(current_emoji, parrots, guests,
                             args.list_available).to_add = to_add

\* A standard entry and a guest are missing, and an installed entry is left out
C5_Witness ==
    /\ DiffDone
    /\ Len(parrots) = 2
    /\ Len(guests) = 1
    /\ Len(to_add) = 2
    /\ ~to_add[1].is_guest
    /\ to_add[2].is_guest
    /\ to_add[1] = parrots[2]

Distinct(s) == \A i, j \in 1..Len(s) : s[i] = s[j] => i = j

\* C6: no two entries of the missing list handed to the uploader have the same
\* slug; of a slug that occurs more than once in the catalog, only the first
\* entry is kept.
C6_UniqueSlugs ==
    (/\ DiffDone
     /\ ~args.list_available
     /\ Distinct(Slugs(parrots))
     /\ Distinct(Slugs(guests)))
    => Distinct(Slugs(to_add))

\* The run got the catalog and the team's emoji (line 768 is reached)
Fetched ==
    \E i \in 1..Len(stdout) :
        stdout[i].kind \in {"Existing Parrots:", "Available Parrots:", "Starting Parroting..."}

\* A slug is derived for the entry: from an hd reference with a directory or an
\* extension, or, without hd reference, from a gif reference
HasSlug(e) ==
    IF Has(e, "hd") THEN \E i \in 1..Len(e.hd) : e.hd[i] \in {"/", "."}
    ELSE Has(e, "gif")

\* The catalog entries before the first one for which no slug is derived
RECURSIVE WithSlug(_)
WithSlug(catalog) ==
    IF catalog = <<>> \/ ~HasSlug(Head(catalog)) THEN <<>>
    ELSE <<Head(catalog)>> \o WithSlug(Tail(catalog))

AllWithSlug(catalog) == WithSlug(catalog) = catalog

\* The exception the first entry without slug raises in get_emoji_list
SlugError(catalog) ==
    IF Has(catalog[Len(WithSlug(catalog)) + 1], "hd") THEN "IndexError" ELSE "KeyError"

SlugsOf(catalog) == [i \in 1..Len(catalog) |-> FormatEmoji(catalog[i]).emoji.slug]

\* The cache file as authentication left it: written by the login, if there was one
AuthFile ==
    IF logins = 0 THEN cookies_file0
    ELSE <<[team |-> args.team, cookies |-> NewCookies(args.team), mtime |-> Now]>>

NoUploadNoPrompt ==
    /\ attempted = <<>>
    /\ requests = <<>>
    /\ messages = <<>>
    /\ prompts = 0
    /\ Entered("Authenticated") => cookies_file = AuthFile

\* C7 as stated: with --list_available, whatever the other flags, a run that got
\* the catalog (a slug derived for every entry) and the team's emoji prints the
\* slug of every catalog entry and exits with code 0, without upload, prompt or
\* write to the cache file after authentication.
C7_ListAvailableWhateverFlags ==
    (args.list_available /\ Exited /\ Fetched /\ AllWithSlug(Catalog))
    => /\ ExitCode = 0
       /\ SlugsOfKind(stdout, "available") = SlugsOf(Catalog)
       /\ NoUploadNoPrompt

\* C7, amended: with --list_available and without --list_existing the run makes
\* no upload, no prompt and no write to the cache file after authentication;
\* having got the catalog and the team's emoji it prints the slug of every
\* catalog entry and exits with code 0 when a slug is derived for every entry,
\* and otherwise ends with the KeyError or IndexError of the first entry without
\* slug, after the slugs of the entries before it.  (With --list_existing the
\* team's emoji are listed instead.)
C7_ListAvailable ==
    (args.list_available /\ ~args.list_existing)
    => /\ NoUploadNoPrompt
       /\ (Exited /\ Fetched)
          => /\ SlugsOfKind(stdout, "available") = SlugsOf(WithSlug(Catalog))
             /\ IF AllWithSlug(Catalog)
                THEN result = "sys.exit()" /\ ExitCode = 0
                ELSE result = SlugError(Catalog)

\* A run with --list_available (and flags that would otherwise upload) printed
\* the slugs of a standard entry the team has and of a guest, and exited
C7_Witness ==
    /\ Exited
    /\ args.list_available
    /\ ~args.list_existing
    /\ args.quiet
    /\ args.include_guests
    /\ result = "sys.exit()"
    /\ current_emoji = {<<"b">>}
    /\ SlugsOfKind(stdout, "available") = << <<"b">>, <<"a">> >>

Chain == <<"Init", "Authenticated", "CatalogLoaded", "Diffed", "Uploading", "Reported", "Done">>

\* The phase before a phase of the chain
Before(phase) == CHOOSE p \in Range(Chain) : \E i \in 1..(Len(Chain) - 1) :
                     Chain[i] = p /\ Chain[i + 1] = phase

ListingOnly == args.list_existing \/ args.list_available \/ args.list_new

\* C8 as stated: a run that ends with exit code 0 went through the whole chain
\* Init, Authenticated, CatalogLoaded, Diffed, Uploading, Reported, Done, or is a
\* listing-only run that ended from CatalogLoaded or Diffed.
C8_ChainOrListingExit ==
    (Exited /\ ExitCode = 0)
    => \/ phases = Chain
       \/ /\ ListingOnly
          /\ phases[Len(phases) - 1] \in {"CatalogLoaded", "Diffed"}

\* C8, amended: the phases of a run are entered in the order Init,
\* Authenticated, CatalogLoaded, Diffed, Uploading, Reported, each from the one
\* before it, and Done ends the run, from whichever phase the run is in (a run
\* without listing flag also ends from Diffed when nothing is new or the user
\* declines, and from Uploading when nothing was added); with --list_existing,
\* --list_available or --list_new the run never enters Uploading or Reported,
\* sends no emoji.add request and no summary message, and its sys.exit() comes
\* from CatalogLoaded or Diffed.
C8_StateMachine ==
    /\ phases[1] = "Init"
    /\ \A i \in 2..Len(phases) :
         /\ phases[i] # "Done" => phases[i - 1] = Before(phases[i])
         /\ phases[i - 1] # "Done"
    /\ Exited <=> Last(phases) = "Done"
    /\ ~Exited => Last(phases) = PhaseOf(pc)
    /\ ListingOnly
       => /\ ~Entered("Uploading")
          /\ ~Entered("Reported")
          /\ attempted = <<>>
          /\ requests = <<>>
          /\ messages = <<>>
          /\ (Exited /\ ExitCode = 0)
             => /\ result = "sys.exit()"
                /\ phases[Len(phases) - 1] \in {"CatalogLoaded", "Diffed"}

\* A run with --list_new and --quiet found new parrots, listed them and exited
C8_Witness ==
    /\ Exited
    /\ args.list_new
    /\ args.quiet
    /\ ~args.list_available
    /\ Len(to_add) = 2
    /\ SlugsOfKind(stdout, "new") = Slugs(to_add)
    /\ phases = <<"Init", "Authenticated", "CatalogLoaded", "Diffed", "Done">>

\* C9: when the summary message was posted to the channel, the run ends with
\* exit code 0, whether the post succeeded, got a non-2xx status or ok false.
C9_PostFailureKeepsExitCode ==
    (Exited /\ messages # <<>>) => ExitCode = 0

SummaryPrinted ==
    \E i \in 1..Len(stdout) : stdout[i].kind = "Successfully added"

\* C10 as stated: every run that enters the upload step and comes to its end
\* has printed the summary.
C10_AlwaysReported ==
    (Exited /\ LoopEntered /\ result = "return") => SummaryPrinted /\ Entered("Reported")

\* C10, amended: a run that enters the upload step prints the summary, after
\* the last upload attempt and as its last line, exactly when the loop went
\* through the whole list and added at least one entry, and then passes through
\* Reported unless the post of the message raises; a run that added nothing
\* returns without a summary, and a run in which an upload raises ends there.
C10_ReportedWhenAdded ==
    (Exited /\ LoopEntered)
    => /\ SummaryPrinted <=> (LoopDone /\ added # <<>>)
       /\ SummaryPrinted
          => /\ attempted = Slugs(to_add)
             /\ Last(stdout).kind = "Successfully added"
             /\ Last(stdout).n = Len(added)
       /\ Entered("Reported") => SummaryPrinted
       /\ (result = "return" /\ added # <<>>) => Entered("Reported")
       /\ (result = "return" /\ added = <<>>) => ~Entered("Reported")

\* Of two uploads one was added and one was refused, and the summary was printed
C10_Witness ==
    /\ Exited
    /\ result = "return"
    /\ Len(to_add) = 2
    /\ Len(added) = 1
    /\ Len(ErrorsLogged) = 1
    /\ Entered("Reported")
    /\ Last(stdout).kind = "Successfully added"

\* The entry has neither an hd nor a gif image reference
NoImage(e) == ~Has(e, "hd") /\ ~Has(e, "gif")

\* The entries of a catalog with an image reference
Imaged(catalog) ==
    LET imaged(e) == ~NoImage(e)
    IN  SelectSeq(catalog, imaged)

\* C11: when the catalog holds entries without hd and without gif reference (a
\* slug being derived for every other entry), the diff still finishes: the
\* entries without image are in no missing list and no upload, and the missing
\* list holds the entries with image whose slug is not installed.
C11_NoImageEntrySkipped ==
    (/\ Exited
     /\ Fetched
     /\ ~args.list_existing
     /\ ~args.list_available
     /\ \E i \in 1..Len(Catalog) : NoImage(Catalog[i])
     /\ \A i \in 1..Len(Catalog) : NoImage(Catalog[i]) \/ HasSlug(Catalog[i]))
    => /\ DiffDone
       /\ \A i \in 1..Len(to_add) : ~NoImage(to_add[i])
       /\ SlugsOf(to_add) = SlugsOf(Missing(Imaged(Catalog), current_emoji))

\* This run follows an interrupted one and got the same catalog as it
SameCatalog ==
    /\ earlier # <<>>
    /\ RawList(parrots) = earlier[1].parrots
    /\ RawList(guests) = earlier[1].guests

\* C12: in a run started after an interrupted batch, on the same catalog, the
\* diff is made against the emoji the team has now: no emoji the earlier runs
\* installed is in the missing list or sent again, and every catalog entry whose
\* slug is still not installed is in the missing list.
C12_RetryIdempotent ==
    (run > 1 /\ DiffDone /\ ~args.list_available /\ SameCatalog)
    => /\ current_emoji = earlier[1].installed
       /\ to_add = Missing(Catalog, earlier[1].installed)
       /\ \A i \in 1..Len(earlier[1].accepted) :
            /\ earlier[1].accepted[i] \in earlier[1].installed
            /\ earlier[1].accepted[i] \notin Range(Slugs(to_add))
            /\ earlier[1].accepted[i] \notin Range(attempted)
            /\ earlier[1].accepted[i] \notin Range(requests)
       /\ \A i \in 1..Len(Catalog) :
            Catalog[i].slug \notin earlier[1].installed => Catalog[i] \in Range(to_add)

\* The first run was interrupted after it had installed a of the catalog [a, b];
\* the second run found only b missing and installed it
C12_Witness ==
    /\ Exited
    /\ DiffDone
    /\ run = 2
    /\ SameCatalog
    /\ Slugs(parrots) = << <<"a">>, <<"b">> >>
    /\ earlier[1].accepted = << <<"a">> >>
    /\ Slugs(to_add) = << <<"b">> >>
    /\ accepted = << <<"b">> >>

\* The cache file holds a session of the team that is valid as far as the file
\* tells: written within the last hour, with cookies, none of them past its expiry
ValidCache(file, team) ==
    /\ file # <<>>
    /\ file[1].team = team
    /\ file[1].cookies # {}
    /\ Now - file[1].mtime <= CookieExpireDefault
    /\ \A cookie \in file[1].cookies : cookie.expires = 0 \/ cookie.expires >= Now

\* Slack did not give an API token to the session (_get_api_token's error)
TokenRefused ==
    \E i \in 1..Len(stderr) :
        stderr[i].kind = "login_error" /\ stderr[i].detail = "no_token"

\* C13: without --refresh, the cached session is used only when the cache file
\* is valid, and whenever it is not valid (the file is missing, old, of another
\* team, holds an expired cookie, or Slack gives its session no API token) the
\* run logs in instead.
C13_CachedOnlyWhenValid ==
    (~args.refresh /\ pc # "load_cookie_jar")
    => /\ logins = 0 => ValidCache(cookies_file0, args.team)
       /\ ~ValidCache(cookies_file0, args.team) => logins = 1
       /\ TokenRefused => logins = 1

\* The cache file _store_cookies writes for this run's login
StoredLogin ==
    <<[team |-> args.team, cookies |-> NewCookies(args.team), mtime |-> Now]>>

\* C14: a login that succeeds leaves the pair (team of this run, new cookies) in
\* the cache file and the new cookies in the session, before any request is made
\* with them; a login that fails ends the run with an error and leaves the cache
\* file as it was; nothing but a login writes the cache file.
C14_StoredBeforeUse ==
    [][/\ (logins' = logins + 1 /\ pc' # "exited")
          => /\ cookies_file' = StoredLogin
             /\ NewCookies(args.team) \subseteq session_cookies'
             /\ pc' = "get_api_token"
             /\ api_token' = "None"
       /\ (logins' = logins + 1 /\ pc' = "exited")
          => /\ cookies_file' = cookies_file
             /\ result' \notin {"return", "sys.exit()"}
       /\ logins' = logins => cookies_file' = cookies_file]_vars

\* A run with --refresh logged in although the cache file was usable, and the
\* file now holds the new cookies
C14_Witness ==
    /\ pc = "get_api_token"
    /\ args.refresh
    /\ Usable(cookies_file0)
    /\ cookies_file0[1].team = args.team
    /\ logins = 1
    /\ cookies_file = StoredLogin
    /\ cookies_file # cookies_file0

\* C15: an upload is attempted only with --quiet or after the prompt was
\* answered; a run that ends at the prompt ends by the answer no, with exit code
\* 0 and no upload: every other reply that is not a yes (one that begins with
\* neither y nor n, the empty reply included) only makes the prompt ask again.
C15_ApprovalGate ==
    /\ (LoopEntered \/ attempted # <<>> \/ requests # <<>>)
       => (args.quiet \/ prompts > 0)
    /\ args.quiet => prompts = 0
    /\ (Exited /\ prompts > 0 /\ ~LoopEntered)
       => /\ result = "sys.exit()"
          /\ ExitCode = 0
          /\ attempted = <<>>
          /\ requests = <<>>
====
